---- MODULE Spec2Model ----
(***************************************************************************)
(* Model of the SPL "AVL" shim (module/spl/spl-avl.c): the avl_* container  *)
(* interface implemented on top of the Linux red-black tree.  Pointers are  *)
(* integer addresses, the rb_node fields live in a memory map, and each     *)
(* avl_* function is one action.                                            *)
(***************************************************************************)
EXTENDS Integers, Sequences, FiniteSets, TLC

\* ------------------------------------------------------------------ bounds
NumElems == 4          \* caller records available for insertion
MaxOps == 9            \* container operations per behaviour

\* ------------------------------------------------------------- addresses
NULL == 0
AVL_BEFORE == 0
AVL_AFTER == 1

\* One caller record per element; a record spans two address units so that a
\* link field can sit at offset 0 or at offset 1 inside it.
ObjAddr(e) == e + e
Objs == {ObjAddr(e) : e \in 1..NumElems}
Offsets == {0, 1}
NodeAddrs == {o + d : o \in Objs, d \in Offsets}

\* Slab slots of cyb_cache available for cyb_timer_t records.
MaxTimers == 2
Slots == 1..MaxTimers

VARIABLES
    avl_root,       \* tree->avl_root.rb_node
    avl_children,   \* tree->avl_children (ulong_t, kept as its signed residue)
    avl_first,      \* tree->avl_first
    avl_last,       \* tree->avl_last
    avl_offset,     \* tree->avl_offset
    rb,             \* memory: the struct rb_node stored at each address
    key,            \* the key stored in each caller record
    debug,          \* TRUE when built with ASSERT() enabled
    panicked,       \* the kernel has panicked, oopsed or hung in a loop
    order,          \* records the caller has inserted and not yet removed
    yielded,        \* records returned by avl_destroy_nodes so far
    lastop,         \* the operation that completed last, with its arguments
    net,            \* completed insertions minus completed removals
    nops,           \* number of operations performed
    avl_compar,     \* tree->avl_comparator (which comparison function)
    avl_size,       \* tree->avl_size
    tree2,          \* a second struct avl_tree over the same records
    cyb_timer_list, \* spl-cyclic.c: the list of timer records, head first
    cyb_next_id,    \* spl-cyclic.c: the next cyclic id
    cyb,            \* the cyb_timer_t records by slab slot, with their work
    lbolt,          \* the clock, in ticks
    rm              \* the thread inside spl_cyclic_remove: [pc, id, timer]

treeVars == <<avl_root, avl_children, avl_first, avl_last, rb>>
cfgVars == <<avl_offset, key, debug>>
swapVars == <<avl_compar, avl_size, tree2>>
cycVars == <<cyb_timer_list, cyb_next_id, cyb, lbolt, rm>>
vars == <<avl_root, avl_children, avl_first, avl_last, avl_offset, rb, key,
          debug, panicked, order, yielded, lastop, net, nops,
          avl_compar, avl_size, tree2,
          cyb_timer_list, cyb_next_id, cyb, lbolt, rm>>

\* avl_impl.h: #define avl_o2n(a, obj) / avl_object(a, node)
avl_o2n(obj) == obj + avl_offset
avl_object(node) == node - avl_offset

\* The caller's comparator: -1, 0 or 1 from the keys of the two records.
avl_comparator(a, b) ==
    IF key[a] < key[b] THEN -1 ELSE IF key[a] > key[b] THEN 1 ELSE 0

\* ----------------------------------------------------- linux/rbtree memory
\* A heap value h is [rb, root, fault]: the node memory, the root pointer
\* and whether the last step dereferenced a pointer that is not a node.
Fuel == Cardinality(NodeAddrs) + 1

Heap(m, r) == [rb |-> m, root |-> r, fault |-> FALSE]
Fault(h) == [h EXCEPT !.fault = TRUE]
IsNode(p) == p \in NodeAddrs

\* The value of F at v, with v evaluated once.
With(v, F(_)) == CHOOSE r \in {F(x) : x \in {v}} : TRUE

SetL(h, n, v) == [h EXCEPT !.rb[n].left = v]
SetR(h, n, v) == [h EXCEPT !.rb[n].right = v]
SetP(h, n, p) == [h EXCEPT !.rb[n].parent = p]
SetPC(h, n, p, c) == [h EXCEPT !.rb[n].parent = p, !.rb[n].color = c]

\* rb_link_node(node, parent, rb_link): link is "root", "left" or "right"
\* (of parent); the slot is overwritten whatever it held.
rb_link_node(h, node, parent, link) ==
    LET h1 == [h EXCEPT !.rb[node] =
                  [parent |-> parent, color |-> "red", left |-> NULL, right |-> NULL]]
    IN  IF link = "root" THEN [h1 EXCEPT !.root = node]
        ELSE IF link = "left" THEN SetL(h1, parent, node)
        ELSE SetR(h1, parent, node)

\* __rb_change_child(old, new, parent, root)
rb_change_child(h, old, new, parent) ==
    IF parent # NULL
    THEN IF h.rb[parent].left = old THEN SetL(h, parent, new)
         ELSE SetR(h, parent, new)
    ELSE [h EXCEPT !.root = new]

\* __rb_rotate_set_parents(old, new, root, color)
rb_rotate_set_parents(h0, old, new, color) ==
    With(h0, LAMBDA h :
        rb_change_child(
            SetPC(SetPC(h, new, h.rb[old].parent, h.rb[old].color),
                  old, new, color),
            old, new, h.rb[old].parent))

\* __rb_insert, parent is gparent's left child, Case 2 (node is parent's
\* right child): left rotate at parent.
rb_insert_case2_left(h, node, parent) ==
    LET tmp == h.rb[node].left
        h1 == SetL(SetR(h, parent, tmp), node, parent)
    IN  SetPC(IF tmp # NULL THEN SetPC(h1, tmp, parent, "black") ELSE h1,
              parent, node, "red")

\* __rb_insert, parent is gparent's left child, Case 3: right rotate at
\* gparent.
rb_insert_case3_left(h, parent, gparent) ==
    LET tmp == h.rb[parent].right
        h1 == SetR(SetL(h, gparent, tmp), parent, gparent)
    IN  rb_rotate_set_parents(
            IF tmp # NULL THEN SetPC(h1, tmp, gparent, "black") ELSE h1,
            gparent, parent, "red")

\* __rb_insert, parent is gparent's right child, Case 2: right rotate at
\* parent.
rb_insert_case2_right(h, node, parent) ==
    LET tmp == h.rb[node].right
        h1 == SetR(SetL(h, parent, tmp), node, parent)
    IN  SetPC(IF tmp # NULL THEN SetPC(h1, tmp, parent, "black") ELSE h1,
              parent, node, "red")

\* __rb_insert, parent is gparent's right child, Case 3: left rotate at
\* gparent.
rb_insert_case3_right(h, parent, gparent) ==
    LET tmp == h.rb[parent].left
        h1 == SetL(SetR(h, gparent, tmp), parent, gparent)
    IN  rb_rotate_set_parents(
            IF tmp # NULL THEN SetPC(h1, tmp, gparent, "black") ELSE h1,
            gparent, parent, "red")

\* The loop of __rb_insert: node is red, parent is its parent.
RECURSIVE rb_insert_loop(_, _, _, _)
rb_insert_loop(h0, node, parent, fuel) ==
    With(h0, LAMBDA h :
    IF fuel = 0 THEN Fault(h)
    ELSE IF parent = NULL THEN SetPC(h, node, NULL, "black")
    ELSE IF h.rb[parent].color = "black" THEN h
    ELSE LET gparent == h.rb[parent].parent IN
         IF ~IsNode(gparent) THEN Fault(h)
         ELSE LET right == h.rb[gparent].right
                  uncle == IF parent # right THEN right ELSE h.rb[gparent].left
              IN  IF uncle # NULL /\ h.rb[uncle].color = "red"
                  THEN \* Case 1 - node's uncle is red (color flips)
                       With(SetPC(SetPC(h, uncle, gparent, "black"),
                                  parent, gparent, "black"),
                            LAMBDA h2 :
                                rb_insert_loop(
                                    SetPC(h2, gparent, h2.rb[gparent].parent, "red"),
                                    gparent, h2.rb[gparent].parent, fuel - 1))
                  ELSE IF parent # right
                  THEN IF h.rb[parent].right = node
                       THEN With(rb_insert_case2_left(h, node, parent),
                                 LAMBDA h2 : rb_insert_case3_left(h2, node, gparent))
                       ELSE rb_insert_case3_left(h, parent, gparent)
                  ELSE IF h.rb[parent].left = node
                       THEN With(rb_insert_case2_right(h, node, parent),
                                 LAMBDA h2 : rb_insert_case3_right(h2, node, gparent))
                       ELSE rb_insert_case3_right(h, parent, gparent))

\* rb_insert_color(node, root)
rb_insert_color(h0, node) ==
    With(h0, LAMBDA h : rb_insert_loop(h, node, h.rb[node].parent, Fuel))

\* Descent of rb_erase to the leftmost node under node's right child.
RECURSIVE rb_leftmost(_, _, _, _)
rb_leftmost(h, parent, successor, fuel) ==
    IF fuel = 0 THEN [parent |-> parent, successor |-> successor, fault |-> TRUE]
    ELSE IF h.rb[successor].left = NULL
         THEN [parent |-> parent, successor |-> successor, fault |-> FALSE]
         ELSE rb_leftmost(h, successor, h.rb[successor].left, fuel - 1)

\* __rb_erase_augmented, node has two children: the successor takes node's
\* place.  d is the successor and its parent as rb_leftmost found them, or
\* the right child itself when it has no left child (Case 2).
rb_erase_replace(h, node, d, child2) ==
    IF ~IsNode(h.rb[node].left) THEN [h |-> Fault(h), rebalance |-> NULL]
    ELSE
    With(SetP(SetL(h, d.successor, h.rb[node].left),
              h.rb[node].left, d.successor),
         LAMBDA h2 :
             With(rb_change_child(h2, node, d.successor, h2.rb[node].parent),
                  LAMBDA h4 :
                      IF child2 # NULL
                      THEN [h |-> SetPC(SetPC(h4, d.successor,
                                              h2.rb[node].parent,
                                              h2.rb[node].color),
                                        child2, d.parent, "black"),
                            rebalance |-> NULL]
                      ELSE [h |-> SetPC(h4, d.successor, h2.rb[node].parent,
                                        h2.rb[node].color),
                            rebalance |-> IF h4.rb[d.successor].color = "black"
                                          THEN d.parent ELSE NULL]))

rb_erase_two_children(h, node, child, three, d) ==
    IF three
    THEN With(SetP(SetR(SetL(h, d.parent, h.rb[d.successor].right),
                        d.successor, child),
                   child, d.successor),
              LAMBDA h1 :
                  rb_erase_replace(h1, node, d, h.rb[d.successor].right))
    ELSE rb_erase_replace(h, node, d, h.rb[d.successor].right)

\* __rb_erase_augmented(node, root): unlinks node and returns the heap with
\* the node whose subtree has lost a black node (rebalance), or NULL.
rb_erase_unlink(h, node) ==
    LET child == h.rb[node].right
        tmp == h.rb[node].left
        pcP == h.rb[node].parent
        pcC == h.rb[node].color
    IN  IF tmp = NULL
        THEN IF child # NULL
             THEN [h |-> SetPC(rb_change_child(h, node, child, pcP),
                               child, pcP, pcC),
                   rebalance |-> NULL]
             ELSE [h |-> rb_change_child(h, node, child, pcP),
                   rebalance |-> IF pcC = "black" THEN pcP ELSE NULL]
        ELSE IF child = NULL
        THEN [h |-> rb_change_child(SetPC(h, tmp, pcP, pcC), node, tmp, pcP),
              rebalance |-> NULL]
        ELSE IF h.rb[child].left = NULL
        THEN rb_erase_two_children(h, node, child, FALSE,
                 [parent |-> child, successor |-> child, fault |-> FALSE])
        ELSE With(rb_leftmost(h, child, h.rb[child].left, Fuel),
                  LAMBDA d :
                      IF d.fault THEN [h |-> Fault(h), rebalance |-> NULL]
                      ELSE rb_erase_two_children(h, node, child, TRUE, d))

\* ____rb_erase_color, node in parent's left slot, Case 1: the sibling is
\* red, left rotate at parent.
rb_erase_case1_left(h, parent, sibling) ==
    LET tmp1 == h.rb[sibling].left
    IN  rb_rotate_set_parents(
            SetPC(SetL(SetR(h, parent, tmp1), sibling, parent),
                  tmp1, parent, "black"),
            parent, sibling, "red")

\* Case 3: right rotate at sibling.
rb_erase_case3_left(h, parent, sibling, tmp2) ==
    LET tmp1 == h.rb[tmp2].right
        h1 == SetR(SetR(SetL(h, sibling, tmp1), tmp2, sibling), parent, tmp2)
    IN  IF tmp1 # NULL THEN SetPC(h1, tmp1, sibling, "black") ELSE h1

\* Case 4: left rotate at parent + color flips.
rb_erase_case4_left(h, parent, sibling, tmp1) ==
    LET tmp2 == h.rb[sibling].left
        h1 == SetPC(SetL(SetR(h, parent, tmp2), sibling, parent),
                    tmp1, sibling, "black")
    IN  rb_rotate_set_parents(
            IF tmp2 # NULL THEN SetP(h1, tmp2, parent) ELSE h1,
            parent, sibling, "black")

\* Case 2: sibling color flip; again is set when the loop goes on one
\* level up.
rb_erase_case2(h, parent, sibling) ==
    With(SetPC(h, sibling, parent, "red"),
         LAMBDA h2 :
             IF h2.rb[parent].color = "red"
             THEN [h |-> [h2 EXCEPT !.rb[parent].color = "black"],
                   again |-> FALSE]
             ELSE [h |-> h2, again |-> h2.rb[parent].parent # NULL])

\* Cases 2 to 4 with the black sibling.
rb_erase_black_left(h, parent, sibling) ==
    LET tmp1 == h.rb[sibling].right
        tmp2 == h.rb[sibling].left
    IN  IF tmp1 = NULL \/ h.rb[tmp1].color = "black"
        THEN IF tmp2 = NULL \/ h.rb[tmp2].color = "black"
             THEN rb_erase_case2(h, parent, sibling)
             ELSE With(rb_erase_case3_left(h, parent, sibling, tmp2),
                       LAMBDA h3 :
                           [h |-> rb_erase_case4_left(h3, parent, tmp2, sibling),
                            again |-> FALSE])
        ELSE [h |-> rb_erase_case4_left(h, parent, sibling, tmp1),
              again |-> FALSE]

\* One pass of the loop of ____rb_erase_color, node in parent's left slot.
rb_erase_color_left(h, parent) ==
    LET s0 == h.rb[parent].right
    IN  IF ~IsNode(s0) THEN [h |-> Fault(h), again |-> FALSE]
        ELSE IF h.rb[s0].color = "red"
        THEN IF ~IsNode(h.rb[s0].left) THEN [h |-> Fault(h), again |-> FALSE]
             ELSE With(rb_erase_case1_left(h, parent, s0),
                       LAMBDA h1 :
                           rb_erase_black_left(h1, parent, h.rb[s0].left))
        ELSE rb_erase_black_left(h, parent, s0)

\* The mirror image: node in parent's right slot.
rb_erase_case1_right(h, parent, sibling) ==
    LET tmp1 == h.rb[sibling].right
    IN  rb_rotate_set_parents(
            SetPC(SetR(SetL(h, parent, tmp1), sibling, parent),
                  tmp1, parent, "black"),
            parent, sibling, "red")

rb_erase_case3_right(h, parent, sibling, tmp2) ==
    LET tmp1 == h.rb[tmp2].left
        h1 == SetL(SetL(SetR(h, sibling, tmp1), tmp2, sibling), parent, tmp2)
    IN  IF tmp1 # NULL THEN SetPC(h1, tmp1, sibling, "black") ELSE h1

rb_erase_case4_right(h, parent, sibling, tmp1) ==
    LET tmp2 == h.rb[sibling].right
        h1 == SetPC(SetR(SetL(h, parent, tmp2), sibling, parent),
                    tmp1, sibling, "black")
    IN  rb_rotate_set_parents(
            IF tmp2 # NULL THEN SetP(h1, tmp2, parent) ELSE h1,
            parent, sibling, "black")

rb_erase_black_right(h, parent, sibling) ==
    LET tmp1 == h.rb[sibling].left
        tmp2 == h.rb[sibling].right
    IN  IF tmp1 = NULL \/ h.rb[tmp1].color = "black"
        THEN IF tmp2 = NULL \/ h.rb[tmp2].color = "black"
             THEN rb_erase_case2(h, parent, sibling)
             ELSE With(rb_erase_case3_right(h, parent, sibling, tmp2),
                       LAMBDA h3 :
                           [h |-> rb_erase_case4_right(h3, parent, tmp2, sibling),
                            again |-> FALSE])
        ELSE [h |-> rb_erase_case4_right(h, parent, sibling, tmp1),
              again |-> FALSE]

rb_erase_color_right(h, parent) ==
    LET s0 == h.rb[parent].left
    IN  IF ~IsNode(s0) THEN [h |-> Fault(h), again |-> FALSE]
        ELSE IF h.rb[s0].color = "red"
        THEN IF ~IsNode(h.rb[s0].right) THEN [h |-> Fault(h), again |-> FALSE]
             ELSE With(rb_erase_case1_right(h, parent, s0),
                       LAMBDA h1 :
                           rb_erase_black_right(h1, parent, h.rb[s0].right))
        ELSE rb_erase_black_right(h, parent, s0)

\* The loop of ____rb_erase_color(parent, root): node is the child of
\* parent whose subtree is one black node short (NULL at first).
RECURSIVE rb_erase_color(_, _, _, _)
rb_erase_color(h0, node, parent, fuel) ==
    With(h0, LAMBDA h :
        IF fuel = 0 THEN Fault(h)
        ELSE With(IF node # h.rb[parent].right
                  THEN rb_erase_color_left(h, parent)
                  ELSE rb_erase_color_right(h, parent),
                  LAMBDA r :
                      IF r.h.fault \/ ~r.again THEN r.h
                      ELSE rb_erase_color(r.h, parent, r.h.rb[parent].parent,
                                          fuel - 1)))

\* rb_erase(node, root)
rb_erase(h0, node) ==
    With(h0, LAMBDA h :
        With(rb_erase_unlink(h, node),
             LAMBDA u :
                 IF u.h.fault \/ u.rebalance = NULL THEN u.h
                 ELSE rb_erase_color(u.h, NULL, u.rebalance, Fuel)))

\* rb_next(node) / rb_prev(node): the in-order neighbor by child and parent
\* pointers, as [ptr, hang]; hang is set when the walk never ends (the
\* pointers form a cycle).
RECURSIVE rb_down(_, _, _, _)
rb_down(m, n, side, fuel) ==
    IF fuel = 0 THEN [ptr |-> NULL, hang |-> TRUE]
    ELSE IF m[n][side] = NULL THEN [ptr |-> n, hang |-> FALSE]
    ELSE rb_down(m, m[n][side], side, fuel - 1)

RECURSIVE rb_up(_, _, _, _)
rb_up(m, n, side, fuel) ==
    LET parent == m[n].parent
    IN  IF fuel = 0 THEN [ptr |-> NULL, hang |-> TRUE]
        ELSE IF parent # NULL /\ n = m[parent][side]
             THEN rb_up(m, parent, side, fuel - 1)
             ELSE [ptr |-> parent, hang |-> FALSE]

rb_next(m, node) ==
    IF m[node].parent = node /\ m[node].color = "red"
    THEN [ptr |-> NULL, hang |-> FALSE]
    ELSE IF m[node].right # NULL THEN rb_down(m, m[node].right, "left", Fuel)
    ELSE rb_up(m, node, "right", Fuel)

rb_prev(m, node) ==
    IF m[node].parent = node /\ m[node].color = "red"
    THEN [ptr |-> NULL, hang |-> FALSE]
    ELSE IF m[node].left # NULL THEN rb_down(m, m[node].left, "right", Fuel)
    ELSE rb_up(m, node, "left", Fuel)

\* ------------------------------------------------------------- spl-avl.c
\* A tree value t is the struct avl_tree plus the node memory:
\* [root, children, first, last, rb, panic].
Tree == [root |-> avl_root, children |-> avl_children, first |-> avl_first,
         last |-> avl_last, rb |-> rb, panic |-> FALSE]
Panic(t) == [t EXCEPT !.panic = TRUE]

\* Memory of a record that nothing has written yet holds either zeroes or
\* junk; following junk as a struct rb_node ends in an oops.
Junk == [parent |-> NULL, color |-> "junk", left |-> NULL, right |-> NULL]
Uninit(m, n) == IF IsNode(n) THEN m[n].color = "junk" ELSE TRUE

\* avl_find(tree, node, &where): the loop over n and prev.
RECURSIVE avl_find_loop(_, _, _, _, _)
avl_find_loop(t, n, prev, node, fuel) ==
    IF fuel = 0 THEN [ret |-> NULL, where |-> prev, hang |-> TRUE]
    ELSE IF n = NULL THEN [ret |-> NULL, where |-> prev, hang |-> FALSE]
    ELSE LET c == avl_comparator(node, avl_object(n))
         IN  IF c = 1 THEN avl_find_loop(t, t.rb[n].left, n, node, fuel - 1)
             ELSE IF c = -1
                  THEN avl_find_loop(t, t.rb[n].right, n, node, fuel - 1)
                  ELSE [ret |-> avl_object(n), where |-> n, hang |-> FALSE]

avl_find(t, node) == avl_find_loop(t, t.root, NULL, node, Fuel)

\* avl_insert_here(tree, new_data, here, direction)
avl_insert_here(t, new_data, here, direction) ==
    IF debug /\ t.children = 0 THEN Panic(t)
    ELSE IF direction \notin {AVL_AFTER, AVL_BEFORE} THEN Panic(t)
    ELSE IF Uninit(t.rb, avl_o2n(here)) THEN Panic(t)
    ELSE LET new == avl_o2n(new_data)
             n == avl_o2n(here)
             link == IF direction = AVL_AFTER THEN "right" ELSE "left"
             h1 == rb_link_node(Heap(t.rb, t.root), new, n, link)
             h2 == rb_insert_color(h1, new)
         IN  [root |-> h2.root,
              children |-> t.children + 1,
              first |-> IF here = t.first /\ direction = AVL_BEFORE
                        THEN new_data ELSE t.first,
              last |-> IF here = t.last /\ direction = AVL_AFTER
                       THEN new_data ELSE t.last,
              rb |-> h2.rb,
              panic |-> h2.fault]

\* avl_insert(tree, node, where)
avl_insert(t, node, where) ==
    IF where = 0
    THEN IF debug /\ t.children # 0 THEN Panic(t)
         ELSE LET h1 == rb_link_node(Heap(t.rb, t.root), node, NULL, "root")
                  h2 == rb_insert_color(h1, node)
              IN  [root |-> h2.root, children |-> 1, first |-> node,
                   last |-> node, rb |-> h2.rb, panic |-> h2.fault]
    ELSE LET here == avl_object(where)
             direction == IF avl_comparator(node, here) # -1 THEN 1 ELSE 0
         IN  avl_insert_here(t, node, here, direction)

\* avl_add(tree, node)
avl_add(t, node) ==
    LET f == avl_find(t, node)
    IN  IF f.hang THEN Panic(t) ELSE avl_insert(t, node, f.where)

\* avl_remove(tree, node)
avl_remove(t, node) ==
    IF Uninit(t.rb, avl_o2n(node)) THEN Panic(t)
    ELSE
    LET n == avl_o2n(node)
        children == t.children - 1
        next == IF node = t.first /\ children # 0
                THEN rb_next(t.rb, n) ELSE [ptr |-> NULL, hang |-> FALSE]
        prev == IF node = t.last /\ children # 0
                THEN rb_prev(t.rb, n) ELSE [ptr |-> NULL, hang |-> FALSE]
        h == rb_erase(Heap(t.rb, t.root), n)
    IN  [root |-> h.root,
         children |-> children,
         first |-> IF node = t.first
                   THEN IF children # 0 THEN avl_object(next.ptr) ELSE NULL
                   ELSE t.first,
         last |-> IF node = t.last
                  THEN IF children # 0 THEN avl_object(prev.ptr) ELSE NULL
                  ELSE t.last,
         rb |-> h.rb,
         panic |-> next.hang \/ prev.hang \/ h.fault]

\* avl_numnodes(tree), avl_is_empty(tree)
avl_numnodes(t) == t.children
avl_is_empty(t) == t.root = NULL

\* A swap that copies without the temporary: *tree1 = *tree2; *tree2 = *tree1.
avl_swap_no_temp(t1, t2) == [tree1 |-> t2, tree2 |-> t2]

\* avl_destroy(tree): whether the struct is released, and whether the call
\* ended in a panic.  The only assertion is tree != NULL.
avl_destroy(t) == [freed |-> TRUE, panic |-> FALSE]

\* avl_swap(tree1, tree2): temp = *tree1; *tree1 = *tree2; *tree2 = temp.
avl_swap(t1, t2) == [tree1 |-> t2, tree2 |-> t1]

\* avl_nearest(tree, where, direction): the return value, and whether the
\* call ended in a panic.
avl_nearest(t, where, direction) ==
    IF avl_is_empty(t) THEN [ret |-> NULL, panic |-> FALSE]
    ELSE IF direction \notin {AVL_AFTER, AVL_BEFORE} \/ Uninit(t.rb, where)
    THEN [ret |-> NULL, panic |-> TRUE]
    ELSE With(IF direction = AVL_AFTER THEN rb_next(t.rb, where)
              ELSE rb_prev(t.rb, where),
              LAMBDA r : [ret |-> avl_object(r.ptr), panic |-> r.hang])

\* avl_walk(tree, node, direction)
avl_walk(t, node, direction) == avl_nearest(t, avl_o2n(node), direction)

\* avl_destroy_nodes(tree, &cookie): the tree afterwards and the return value.
avl_destroy_nodes(t) ==
    LET cookie == t.first
    IN  IF cookie = NULL THEN [t |-> t, ret |-> NULL]
        ELSE [t |-> avl_remove(t, cookie), ret |-> cookie]

\* ------------------------------------------------------ the caller's view
\* order: the records the caller has inserted and not removed, in the order
\* the calls asked for (sorted position for avl_add, next to the neighbor
\* for avl_insert_here).
Members == {order[i] : i \in 1..Len(order)}
IndexOf(sq, x) == CHOOSE i \in 1..Len(sq) : sq[i] = x
InsertAt(sq, i, x) == SubSeq(sq, 1, i - 1) \o <<x>> \o SubSeq(sq, i, Len(sq))
RemoveAt(sq, i) == SubSeq(sq, 1, i - 1) \o SubSeq(sq, i + 1, Len(sq))
Sorted(sq) == \A i \in 1..(Len(sq) - 1) : key[sq[i]] <= key[sq[i + 1]]
SortedPos(sq, x) == 1 + Cardinality({i \in 1..Len(sq) : key[sq[i]] < key[x]})

\* In-order traversal of the tree by child pointers (left, node, right).
RECURSIVE InOrderFrom(_, _, _)
InOrderFrom(m, n, fuel) ==
    IF n = NULL \/ fuel = 0 THEN <<>>
    ELSE InOrderFrom(m, m[n].left, fuel - 1) \o <<avl_object(n)>>
         \o InOrderFrom(m, m[n].right, fuel - 1)
InOrder == InOrderFrom(rb, avl_root, Fuel)
Range(sq) == {sq[i] : i \in 1..Len(sq)}

\* The tree is the one a correct container would hold: every member is
\* reachable from the root, in the caller's order, each child points back to
\* its parent, and the cached endpoints are the ends of the traversal.
ParentsAgree ==
    /\ avl_root # NULL => rb[avl_root].parent = NULL
    /\ \A o \in Range(InOrder) :
           LET n == avl_o2n(o)
           IN  /\ rb[n].left # NULL => rb[rb[n].left].parent = n
               /\ rb[n].right # NULL => rb[rb[n].right].parent = n
Healthy ==
    /\ InOrder = order
    /\ ParentsAgree
    /\ avl_first = (IF order = <<>> THEN NULL ELSE order[1])
    /\ avl_last = (IF order = <<>> THEN NULL ELSE order[Len(order)])

\* ---------------------------------------------------------------- actions
NoNode == [parent |-> NULL, color |-> "red", left |-> NULL, right |-> NULL]
Before == [inorder |-> InOrder, order |-> order, first |-> avl_first,
           last |-> avl_last, healthy |-> Healthy]
Op(name, node, here, dir, ret) ==
    [op |-> name, node |-> node, here |-> here, dir |-> dir, ret |-> ret,
     before |-> Before]

\* avl_create(tree, compar, size, offset): the struct avl_tree it leaves,
\* with the caller's bookkeeping for that container (order, net).
RecSize == Cardinality(Offsets)
avl_create(compar, size, offset) ==
    [root |-> NULL, comparator |-> compar, size |-> size, offset |-> offset,
     children |-> 0, first |-> NULL, last |-> NULL, order |-> <<>>, net |-> 0]

\* The caller has made no call yet.
NoCall ==
    [op |-> "avl_create", node |-> NULL, here |-> NULL, dir |-> AVL_BEFORE,
     ret |-> NULL,
     before |-> [inorder |-> <<>>, order |-> <<>>, first |-> NULL,
                 last |-> NULL, healthy |-> TRUE]]

\* spl_cyclic_init(): an empty timer list; every slab slot is free.
NoTimer ==
    [cyb_id |-> 0, cyt_when |-> 0, cyt_interval |-> 0, pending |-> FALSE,
     expires |-> 0, running |-> FALSE, grabbed |-> FALSE, state |-> "free",
     fired |-> 0]
Idle == [pc |-> "idle", id |-> 0, timer |-> NULL]
spl_cyclic_init ==
    /\ cyb_timer_list = <<>>
    /\ cyb_next_id = 1
    /\ cyb = [c \in Slots |-> NoTimer]
    /\ lbolt = 0
    /\ rm = Idle

\* avl_create(tree, compar, size, offset) with a link field at offset 0 and
\* records with pairwise different keys.
Init ==
    /\ avl_root = NULL
    /\ avl_children = 0
    /\ avl_first = NULL
    /\ avl_last = NULL
    /\ avl_offset = 0
    /\ rb = [a \in NodeAddrs |-> NoNode]
    /\ key = [o \in Objs |-> o]
    /\ debug \in BOOLEAN
    /\ panicked = FALSE
    /\ order = <<>>
    /\ yielded = {}
    /\ lastop = [op |-> "avl_create", node |-> NULL, here |-> NULL,
                 dir |-> AVL_BEFORE, ret |-> NULL,
                 before |-> [inorder |-> <<>>, order |-> <<>>,
                             first |-> NULL, last |-> NULL, healthy |-> TRUE]]
    /\ net = 0
    /\ nops = 0
    /\ avl_compar = "compar"
    /\ avl_size = RecSize
    /\ tree2 = avl_create("compar", RecSize, 0)
    /\ spl_cyclic_init

\* The call returned with the tree t: store it.
Commit(t) ==
    /\ avl_root' = t.root
    /\ avl_children' = t.children
    /\ avl_first' = t.first
    /\ avl_last' = t.last
    /\ rb' = t.rb
    /\ panicked' = FALSE
    /\ nops' = nops + 1
    /\ UNCHANGED <<cfgVars, swapVars, cycVars>>

\* The call hit a failed assertion or a bad pointer: the kernel stops.
Halt(name, node) ==
    /\ panicked' = TRUE
    /\ lastop' = Op(name, node, NULL, AVL_BEFORE, NULL)
    /\ nops' = nops + 1
    /\ UNCHANGED <<treeVars, cfgVars, order, yielded, net, swapVars, cycVars>>

CanCall == ~panicked /\ nops < MaxOps /\ lastop.op # "avl_destroy"

\* avl_add(tree, e) of a record whose key no member has.
Add(e) ==
    /\ CanCall
    /\ e \notin Members \cup Range(tree2.order)
    /\ \A m \in Members : key[m] # key[e]
    /\ LET t == avl_add(Tree, e)
       IN  IF t.panic THEN Halt("avl_add", e)
           ELSE /\ Commit(t)
                /\ order' = InsertAt(order, SortedPos(order, e), e)
                /\ yielded' = yielded \ {e}
                /\ net' = net + 1
                /\ lastop' = Op("avl_add", e, NULL, AVL_BEFORE, NULL)

\* avl_insert_here(tree, e, here, dir) next to a member, at a place that
\* keeps the members in comparator order.
InsertHere(e, here, dir) ==
    /\ CanCall
    /\ e \notin Members \cup Range(tree2.order)
    /\ here \in Members
    /\ LET i == IndexOf(order, here)
           o2 == InsertAt(order, IF dir = AVL_AFTER THEN i + 1 ELSE i, e)
       IN  /\ Sorted(o2)
           /\ LET t == avl_insert_here(Tree, e, here, dir)
              IN  IF t.panic THEN Halt("avl_insert_here", e)
                  ELSE /\ Commit(t)
                       /\ order' = o2
                       /\ yielded' = yielded \ {e}
                       /\ net' = net + 1
                       /\ lastop' = Op("avl_insert_here", e, here, dir, NULL)

\* avl_remove(tree, e) of a member.
Remove(e) ==
    /\ CanCall
    /\ e \in Members
    /\ LET t == avl_remove(Tree, e)
       IN  IF t.panic THEN Halt("avl_remove", e)
           ELSE /\ Commit(t)
                /\ order' = RemoveAt(order, IndexOf(order, e))
                /\ yielded' = yielded
                /\ net' = net - 1
                /\ lastop' = Op("avl_remove", e, NULL, AVL_BEFORE, NULL)

\* avl_destroy_nodes(tree, &cookie)
DestroyNodes ==
    /\ CanCall
    /\ LET r == avl_destroy_nodes(Tree)
       IN  IF r.t.panic THEN Halt("avl_destroy_nodes", NULL)
           ELSE /\ Commit(r.t)
                /\ order' = IF r.ret \in Members
                            THEN RemoveAt(order, IndexOf(order, r.ret))
                            ELSE order
                /\ yielded' = IF r.ret = NULL THEN yielded
                              ELSE yielded \cup {r.ret}
                /\ net' = IF r.ret = NULL THEN net ELSE net - 1
                /\ lastop' = Op("avl_destroy_nodes", NULL, NULL, AVL_BEFORE,
                                r.ret)

Next ==
    \/ \E e \in Objs : Add(e)
    \/ \E e \in Objs, here \in Objs, dir \in {AVL_BEFORE, AVL_AFTER} :
           InsertHere(e, here, dir)
    \/ \E e \in Objs : Remove(e)
    \/ DestroyNodes

Spec == Init /\ [][Next]_vars

\* Containers built and taken apart with avl_add and avl_remove only.
NextAdd ==
    \/ \E e \in Objs : Add(e)
    \/ \E e \in Objs : Remove(e)

SpecAdd == Init /\ [][NextAdd]_vars

\* A container built with avl_add and then drained with avl_destroy_nodes.
Draining == lastop.op = "avl_destroy_nodes"

Build(e) == ~Draining /\ Add(e)

NextDrain ==
    \/ \E e \in Objs : Build(e)
    \/ DestroyNodes

SpecDrain == Init /\ [][NextDrain]_vars

\* A container built with avl_add and avl_remove and then drained.
Unbuild(e) == ~Draining /\ Remove(e)

NextTeardown ==
    \/ \E e \in Objs : Build(e)
    \/ \E e \in Objs : Unbuild(e)
    \/ DestroyNodes

SpecTeardown == Init /\ [][NextTeardown]_vars

\* Records with the link field at either offset, with distinct keys or with
\* one key for all, in memory that starts out zeroed or as junk.  With a
\* non-zero offset avl_object() of a node that sits at a record's address
\* points between records, where the comparator reads a key that is none.
Addrs == {a - d : a \in NodeAddrs, d \in Offsets}
GarbageKeys == {0, ObjAddr(1), ObjAddr(NumElems) + 1}
InitRecords ==
    /\ avl_root = NULL
    /\ avl_children = 0
    /\ avl_first = NULL
    /\ avl_last = NULL
    /\ avl_offset \in Offsets
    /\ rb \in {[a \in NodeAddrs |-> NoNode], [a \in NodeAddrs |-> Junk]}
    /\ \E g \in (IF avl_offset = 0 THEN {0} ELSE GarbageKeys), same \in BOOLEAN :
           key = [a \in Addrs |-> IF a \in Objs
                                  THEN (IF same THEN ObjAddr(1) ELSE a)
                                  ELSE g]
    /\ debug \in BOOLEAN
    /\ panicked = FALSE
    /\ order = <<>>
    /\ yielded = {}
    /\ lastop = NoCall
    /\ net = 0
    /\ nops = 0
    /\ avl_compar = "compar"
    /\ avl_size = RecSize
    /\ tree2 = avl_create("compar2", RecSize, avl_offset)
    /\ spl_cyclic_init

\* Short runs: a few calls on such records.
MaxCalls == 4
ShortRun == nops < MaxCalls

\* A query returned ret and changed nothing.
Answer(name, node, dir, ret) ==
    /\ lastop' = Op(name, node, NULL, dir, ret)
    /\ panicked' = FALSE
    /\ nops' = nops + 1
    /\ UNCHANGED <<treeVars, cfgVars, order, yielded, net, swapVars, cycVars>>

\* avl_walk(tree, e, dir) from a member.
Walk(e, dir) ==
    /\ CanCall
    /\ ShortRun
    /\ e \in Members
    /\ \E r \in {avl_walk(Tree, e, dir)} :
           IF r.panic THEN Halt("avl_walk", e)
           ELSE Answer("avl_walk", e, dir, r.ret)

Grow(e) == ShortRun /\ Add(e)
Shrink(e) == ShortRun /\ Remove(e)

NextWalk ==
    \/ \E e \in Objs : Grow(e)
    \/ \E e \in Objs : Shrink(e)
    \/ \E e \in Objs, dir \in {AVL_BEFORE, AVL_AFTER} : Walk(e, dir)

SpecWalk == InitRecords /\ [][NextWalk]_vars

\* The first container's struct avl_tree with the caller's bookkeeping, and
\* a struct avl_tree as a tree value over the node memory.
Struct1 ==
    [root |-> avl_root, comparator |-> avl_compar, size |-> avl_size,
     offset |-> avl_offset, children |-> avl_children, first |-> avl_first,
     last |-> avl_last, order |-> order, net |-> net]
TreeOf(st) ==
    [root |-> st.root, children |-> st.children, first |-> st.first,
     last |-> st.last, rb |-> rb, panic |-> FALSE]

\* avl_swap(tree, tree2)
Swap ==
    /\ CanCall
    /\ ShortRun
    /\ \E sw \in {avl_swap(Struct1, tree2)} :
           /\ avl_root' = sw.tree1.root
           /\ avl_compar' = sw.tree1.comparator
           /\ avl_size' = sw.tree1.size
           /\ avl_offset' = sw.tree1.offset
           /\ avl_children' = sw.tree1.children
           /\ avl_first' = sw.tree1.first
           /\ avl_last' = sw.tree1.last
           /\ order' = sw.tree1.order
           /\ net' = sw.tree1.net
           /\ tree2' = sw.tree2
    /\ lastop' = Op("avl_swap", NULL, NULL, AVL_BEFORE, NULL)
    /\ panicked' = FALSE
    /\ nops' = nops + 1
    /\ UNCHANGED <<rb, key, debug, yielded, cycVars>>

NextSwap ==
    \/ \E e \in Objs : Grow(e)
    \/ \E e \in Objs : Shrink(e)
    \/ Swap

SpecSwap == InitRecords /\ [][NextSwap]_vars

\* avl_remove(tree, e) of a record that is not a member.
RemoveAbsent(e) ==
    /\ CanCall
    /\ ShortRun
    /\ e \notin Members
    /\ \E t \in {avl_remove(Tree, e)} :
           IF t.panic THEN Halt("avl_remove", e)
           ELSE /\ Commit(t)
                /\ lastop' = Op("avl_remove", e, NULL, AVL_BEFORE, NULL)
                /\ UNCHANGED <<order, yielded, net>>

\* avl_destroy(tree): the container is released and no call follows.
Destroy ==
    /\ CanCall
    /\ ShortRun
    /\ \E r \in {avl_destroy(Tree)} :
           IF r.panic THEN Halt("avl_destroy", NULL)
           ELSE Answer("avl_destroy", NULL, AVL_BEFORE, NULL)

NextContract ==
    \/ \E e \in Objs : Grow(e)
    \/ \E e \in Objs : Shrink(e)
    \/ \E e \in Objs : RemoveAbsent(e)
    \/ Destroy

SpecContract == InitRecords /\ [][NextContract]_vars

\* Records that all carry one key, inserted in a chain: the first into the
\* empty container, each later one with avl_insert_here next to the record
\* inserted before it, always in the same direction.
InitEqual == InitRecords /\ \A o \in Objs : key[o] = key[ObjAddr(1)]

First(e) == ShortRun /\ lastop.op = "avl_create" /\ Add(e)

Chain(e, dir) ==
    /\ ShortRun
    /\ lastop.op \in {"avl_add", "avl_insert_here"}
    /\ lastop.op = "avl_insert_here" => dir = lastop.dir
    /\ InsertHere(e, lastop.node, dir)

NextChain ==
    \/ \E e \in Objs : First(e)
    \/ \E e \in Objs, dir \in {AVL_BEFORE, AVL_AFTER} : Chain(e, dir)

SpecChain == InitEqual /\ [][NextChain]_vars

\* ------------------------------------------------------------ spl-cyclic.c
\* Each cyb_timer_t carries a delayed work: pending (queued, its timer
\* armed for expires), running (spl_cyb_work_func is executing) and grabbed
\* (a canceller owns the pending bit while it waits for the running
\* function, so that queueing the work fails).
MaxTime == 4
CY_INFINITY == 2147483647
Whens == {0, CY_INFINITY}
Intervals == {1}
avlVars == <<treeVars, cfgVars, order, yielded, lastop, net, nops, swapVars>>

Ids == 1..(cyb_next_id - 1)
Running == rm.pc # "fini" /\ ~panicked

\* schedule_delayed_work(&cyb_delayed_work, delay): queues the work unless
\* it is queued already; ok is its return value.
schedule_delayed_work(w, delay) ==
    IF w.pending \/ w.grabbed THEN [w |-> w, ok |-> FALSE]
    ELSE [w |-> [w EXCEPT !.pending = TRUE, !.expires = lbolt + delay],
          ok |-> TRUE]

\* spl_cyb_find(id): the first record of the list with that id, or NULL;
\* uaf tells whether the walk read a record that had been freed.
RECURSIVE spl_cyb_find_from(_, _, _)
spl_cyb_find_from(i, id, uaf) ==
    IF i > Len(cyb_timer_list) THEN [timer |-> NULL, uaf |-> uaf]
    ELSE IF cyb[cyb_timer_list[i]].cyb_id = id
         THEN [timer |-> cyb_timer_list[i],
               uaf |-> uaf \/ cyb[cyb_timer_list[i]].state = "freed"]
         ELSE spl_cyb_find_from(i + 1, id,
                  uaf \/ cyb[cyb_timer_list[i]].state = "freed")
spl_cyb_find(id) == spl_cyb_find_from(1, id, FALSE)

\* spl_cyclic_add(hdlr, when): a record from the slab gets the next id, goes
\* to the tail of the list and its work is scheduled with delay
\* lbolt + cyt_interval.
spl_cyclic_add(when, interval) ==
    /\ Running
    /\ \E c \in Slots :
           /\ cyb[c].state = "free"
           /\ \A d \in Slots : cyb[d].state = "free" => c <= d
           /\ \E r \in {schedule_delayed_work(
                            [NoTimer EXCEPT !.cyb_id = cyb_next_id,
                                            !.cyt_when = when,
                                            !.cyt_interval = interval,
                                            !.state = "live"],
                            lbolt + interval)} :
                  /\ cyb' = [cyb EXCEPT ![c] = r.w]
                  /\ panicked' = ~r.ok
           /\ cyb_timer_list' = Append(cyb_timer_list, c)
    /\ cyb_next_id' = cyb_next_id + 1
    /\ UNCHANGED <<lbolt, rm, avlVars>>

\* The clock advances.
Tick ==
    /\ Running
    /\ lbolt < MaxTime
    /\ lbolt' = lbolt + 1
    /\ UNCHANGED <<cyb_timer_list, cyb_next_id, cyb, rm, panicked, avlVars>>

\* The delay of a queued work has passed: the workqueue takes it and
\* spl_cyb_work_func calls the handler.
WorkStart(c) ==
    /\ Running
    /\ cyb[c].pending
    /\ ~cyb[c].running
    /\ lbolt >= cyb[c].expires
    /\ cyb' = [cyb EXCEPT ![c].pending = FALSE, ![c].running = TRUE,
                          ![c].fired = 1]
    /\ UNCHANGED <<cyb_timer_list, cyb_next_id, lbolt, rm, panicked, avlVars>>

\* spl_cyb_work_func after the handler returned: next = lbolt + cyt_interval
\* and the work is scheduled again if cyt_when > next.
WorkEnd(c) ==
    /\ Running
    /\ cyb[c].running
    /\ LET next == lbolt + cyb[c].cyt_interval
           w == [cyb[c] EXCEPT !.running = FALSE]
       IN  IF cyb[c].cyt_when > next
           THEN \E r \in {schedule_delayed_work(w, next)} :
                    /\ cyb' = [cyb EXCEPT ![c] = r.w]
                    /\ panicked' = ~r.ok
           ELSE /\ cyb' = [cyb EXCEPT ![c] = w]
                /\ panicked' = FALSE
    /\ UNCHANGED <<cyb_timer_list, cyb_next_id, lbolt, rm, avlVars>>

\* A walk of spl_cyb_find that read freed memory goes on as if the record
\* were intact, or oopses.
Outcomes(f) == IF f.uaf THEN {"intact", "oops"} ELSE {"intact"}

\* spl_cyclic_remove(id) up to the cancel loop, for an id that
\* spl_cyclic_add returned and the caller has not removed yet.
RemoveCall(id) ==
    /\ Running
    /\ rm.pc = "idle"
    /\ id \in Ids
    /\ \E c \in Slots : cyb[c].cyb_id = id /\ cyb[c].state = "live"
    /\ \E f \in {spl_cyb_find(id)}, o \in Outcomes(spl_cyb_find(id)) :
           IF o = "oops" \/ (f.timer = NULL /\ debug)
           THEN panicked' = TRUE /\ rm' = rm
           ELSE /\ panicked' = FALSE
                /\ rm' = IF f.timer = NULL THEN Idle
                         ELSE [pc |-> "cancel", id |-> id, timer |-> f.timer]
    /\ UNCHANGED <<cyb_timer_list, cyb_next_id, cyb, lbolt, avlVars>>

\* One pass of while (!cancel_delayed_work_sync(...)): a queued work is
\* taken off the queue and the loop ends; a work that is not queued makes
\* the call wait for the running function, if any, and return false.
RemoveCancel ==
    /\ Running
    /\ rm.pc = "cancel"
    /\ LET w == cyb[rm.timer]
       IN  IF w.pending
           THEN /\ cyb' = [cyb EXCEPT ![rm.timer].pending = FALSE]
                /\ rm' = [rm EXCEPT !.pc = "free"]
           ELSE IF w.running
           THEN /\ cyb' = [cyb EXCEPT ![rm.timer].grabbed = TRUE]
                /\ rm' = [rm EXCEPT !.pc = "wait"]
           ELSE UNCHANGED <<cyb, rm>>
    /\ UNCHANGED <<cyb_timer_list, cyb_next_id, lbolt, panicked, avlVars>>

\* cancel_delayed_work_sync returns false once the running function ended.
RemoveWait ==
    /\ Running
    /\ rm.pc = "wait"
    /\ ~cyb[rm.timer].running
    /\ cyb' = [cyb EXCEPT ![rm.timer].grabbed = FALSE]
    /\ rm' = [rm EXCEPT !.pc = "cancel"]
    /\ UNCHANGED <<cyb_timer_list, cyb_next_id, lbolt, panicked, avlVars>>

\* kmem_cache_free(cyb_cache, cyb_timer) and return.
RemoveFree ==
    /\ Running
    /\ rm.pc = "free"
    /\ cyb' = [cyb EXCEPT ![rm.timer].state = "freed"]
    /\ rm' = Idle
    /\ UNCHANGED <<cyb_timer_list, cyb_next_id, lbolt, panicked, avlVars>>

\* spl_cyclic_reprogram(id, expiration) for a registered id.
spl_cyclic_reprogram(id, expiration) ==
    /\ Running
    /\ id \in Ids
    /\ \E c \in Slots : cyb[c].cyb_id = id /\ cyb[c].state = "live"
    /\ rm.id # id
    /\ \E f \in {spl_cyb_find(id)}, o \in Outcomes(spl_cyb_find(id)) :
           IF o = "oops" \/ (f.timer = NULL /\ debug)
           THEN panicked' = TRUE /\ cyb' = cyb
           ELSE /\ panicked' = FALSE
                /\ cyb' = IF f.timer = NULL THEN cyb
                          ELSE [cyb EXCEPT ![f.timer].cyt_when = expiration]
    /\ UNCHANGED <<cyb_timer_list, cyb_next_id, lbolt, rm, avlVars>>

\* spl_cyclic_fini(), once the caller has removed every cyclic it added.
spl_cyclic_fini ==
    /\ Running
    /\ rm.pc = "idle"
    /\ Ids # {}
    /\ \A c \in Slots : cyb[c].state # "live"
    /\ panicked' = (debug /\ cyb_timer_list # <<>>)
    /\ rm' = [rm EXCEPT !.pc = "fini"]
    /\ UNCHANGED <<cyb_timer_list, cyb_next_id, cyb, lbolt, avlVars>>

NextCyclic ==
    \/ \E when \in Whens, interval \in Intervals : spl_cyclic_add(when, interval)
    \/ Tick
    \/ \E c \in Slots : WorkStart(c)
    \/ \E c \in Slots : WorkEnd(c)
    \/ \E id \in Slots : RemoveCall(id)
    \/ RemoveCancel
    \/ RemoveWait
    \/ RemoveFree
    \/ \E id \in Slots, d \in Intervals :
           spl_cyclic_reprogram(id, lbolt + d + d + d)
    \/ spl_cyclic_fini

SpecCyclic == Init /\ [][NextCyclic]_vars

\* The workqueue runs queued work whose delay has passed, running functions
\* return, the clock advances, and the thread in spl_cyclic_remove keeps
\* executing.
SpecCyclicFair ==
    /\ SpecCyclic
    /\ WF_vars(Tick)
    /\ \A c \in Slots : WF_vars(WorkStart(c)) /\ WF_vars(WorkEnd(c))
    /\ WF_vars(RemoveCancel) /\ WF_vars(RemoveWait) /\ WF_vars(RemoveFree)

\* ----------------------------------------------------------------- claims
Pred(p) == {m \in Members : key[m] < key[p] /\ \A x \in Members : ~(key[m] < key[x] /\ key[x] < key[p])}
Succ(p) == {m \in Members : key[p] < key[m] /\ \A x \in Members : ~(key[p] < key[x] /\ key[x] < key[m])}

\* C1: after any sequence of avl_add and avl_remove calls the in-order
\* traversal of the tree is non-decreasing under the comparator.
C1_OrderInvariant == ~panicked => Sorted(InOrder)

\* C2: after every mutation avl_first() is the comparator-smallest member and
\* avl_last() the comparator-largest one, and both are NULL when the
\* container is empty.
C2_EndpointInvariant ==
    ~panicked =>
        IF order = <<>> THEN avl_first = NULL /\ avl_last = NULL
        ELSE avl_first = order[1] /\ avl_last = order[Len(order)]

\* C3: right after avl_add(e), avl_find with e as probe returns e and sets
\* the token to e's node.
C3_RoundTrip ==
    lastop.op = "avl_add" /\ ~panicked =>
        LET f == avl_find(Tree, lastop.node)
        IN  ~f.hang /\ f.ret = lastop.node /\ f.where = avl_o2n(lastop.node)

\* C4: avl_insert_here(new, here, direction) on a container that holds its
\* members in order puts new right after here (AVL_AFTER) or right before
\* it (AVL_BEFORE) in the in-order traversal and keeps the other elements
\* in their relative positions.
C4_InsertHereAdjacency ==
    lastop.op = "avl_insert_here" /\ lastop.before.healthy =>
        /\ ~panicked
        /\ LET b == lastop.before.inorder
               i == IndexOf(b, lastop.here)
           IN  InOrder = InsertAt(b, IF lastop.dir = AVL_AFTER THEN i + 1 ELSE i,
                                  lastop.node)

\* C5: avl_numnodes() equals the number of completed insertions minus the
\* number of completed removals.
C5_CountInvariant == ~panicked => avl_numnodes(Tree) = net

\* C6: the emptiness indicators agree: the root is null iff avl_first() is
\* NULL iff avl_last() is NULL iff avl_numnodes() is 0.
C6_EmptinessConsistency ==
    ~panicked =>
        /\ avl_is_empty(Tree) <=> avl_first = NULL
        /\ avl_first = NULL <=> avl_last = NULL
        /\ avl_last = NULL <=> avl_numnodes(Tree) = 0

\* C7: draining a container built by adds: each avl_destroy_nodes call
\* returns a member not returned before, and it returns NULL only when every
\* member has been returned.
C7_DrainCompleteness ==
    lastop.op = "avl_destroy_nodes" =>
        /\ ~panicked
        /\ IF lastop.ret = NULL THEN lastop.before.order = <<>>
           ELSE lastop.ret \in Range(lastop.before.order)

\* C8: between two avl_destroy_nodes calls avl_find never returns an element
\* already yielded, avl_numnodes is the number of elements not yet yielded,
\* and avl_first/avl_last refer only to elements not yet yielded.
C8_DrainInterleavingSafety ==
    Draining =>
        /\ ~panicked
        /\ \A p \in Objs :
               LET f == avl_find(Tree, p) IN ~f.hang /\ f.ret \notin yielded
        /\ avl_numnodes(Tree) = Len(order)
        /\ avl_first \in Members \cup {NULL}
        /\ avl_last \in Members \cup {NULL}

\* C9: avl_remove(e) on a valid ordered tree with correct cached endpoints
\* leaves avl_first at e's successor if e was the minimum, avl_last at e's
\* predecessor if e was the maximum, both NULL if e was the only element,
\* and the endpoints unchanged otherwise; neither endpoint refers to e.
C9_RemoveKeepsEndpoints ==
    lastop.op = "avl_remove" /\ lastop.before.healthy =>
        /\ ~panicked
        /\ LET b == lastop.before.inorder
               i == IndexOf(b, lastop.node)
           IN  /\ avl_first = (IF Len(b) = 1 THEN NULL
                               ELSE IF i = 1 THEN b[2] ELSE lastop.before.first)
               /\ avl_last = (IF Len(b) = 1 THEN NULL
                              ELSE IF i = Len(b) THEN b[Len(b) - 1]
                              ELSE lastop.before.last)
               /\ avl_first # lastop.node
               /\ avl_last # lastop.node

\* C10: avl_find with a probe equal to no member returns NULL and a token
\* whose neighbor is the probe's in-order predecessor or successor among the
\* members; with a probe equal to a member it returns that member.
C10_FindInsertionPoint ==
    ~panicked =>
        \A p \in Objs :
            LET f == avl_find(Tree, p)
            IN  /\ ~f.hang
                /\ IF p \in Members THEN f.ret = p
                   ELSE /\ f.ret = NULL
                        /\ Members # {} =>
                               avl_object(f.where) \in Pred(p) \cup Succ(p)

\* The members met by walking with avl_walk(AVL_AFTER) from avl_first until
\* it returns NULL.
RECURSIVE WalkFrom(_, _)
WalkFrom(e, fuel) ==
    IF e = NULL \/ fuel = 0 THEN <<>>
    ELSE IF e \notin Objs THEN <<e>>
    ELSE With(avl_walk(Tree, e, AVL_AFTER),
              LAMBDA r : IF r.panic THEN <<e, NULL>>
                         ELSE <<e>> \o WalkFrom(r.ret, fuel - 1))

\* C11: avl_walk(e, AVL_AFTER) returns the in-order successor of the member
\* e and avl_walk(e, AVL_BEFORE) its predecessor, NULL past either end, for
\* any link offset; walking AVL_AFTER from avl_first visits every member
\* once and then returns NULL.
C11_Walk ==
    lastop.op = "avl_walk" =>
        /\ ~panicked
        /\ LET i == IndexOf(order, lastop.node)
           IN  lastop.ret =
                   (IF lastop.dir = AVL_AFTER
                    THEN (IF i = Len(order) THEN NULL ELSE order[i + 1])
                    ELSE (IF i = 1 THEN NULL ELSE order[i - 1]))
        /\ WalkFrom(avl_first, Fuel) = order

\* C12: elements with equal keys inserted in a chain with avl_insert_here in
\* a fixed direction are traversed in insertion order (AVL_AFTER) or in
\* reverse insertion order (AVL_BEFORE), and avl_first/avl_last are the ends
\* of that traversal.
C12_DirectionalInsertion ==
    lastop.op \in {"avl_add", "avl_insert_here"} =>
        /\ ~panicked
        /\ InOrder = order
        /\ avl_first = order[1]
        /\ avl_last = order[Len(order)]

\* C13: every write into a caller record goes to the link field at
\* avl_offset, on every insertion path; and after the insertion of e into
\* the empty container avl_find with e returns the pointer e.
C13_LinkFieldFrame ==
    /\ [][\A a \in NodeAddrs : rb'[a] # rb[a] => avl_object(a) \in Objs]_vars
    /\ [](lastop.op = "avl_add" /\ lastop.before.order = <<>> /\ ~panicked
             => avl_find(Tree, lastop.node).ret = lastop.node)

\* C14: avl_swap leaves each container with exactly the root, comparator,
\* size, offset, count and cached endpoints the other had, so every query on
\* the first container answers afterwards as it did on the second before;
\* a second avl_swap restores both.
C14_Swap ==
    [][lastop'.op = "avl_swap" =>
          /\ Struct1' = tree2
          /\ tree2' = Struct1
          /\ avl_first' = tree2.first /\ avl_last' = tree2.last
          /\ avl_numnodes(Tree)' = avl_numnodes(TreeOf(tree2))
          /\ \A p \in Objs :
                 /\ avl_find(Tree, p)' = avl_find(TreeOf(tree2), p)
                 /\ \A d \in {AVL_BEFORE, AVL_AFTER} :
                        avl_walk(Tree, p, d)' = avl_walk(TreeOf(tree2), p, d)
          /\ lastop.op = "avl_swap" =>
                 /\ order' = lastop.before.order
                 /\ avl_first' = lastop.before.first
                 /\ avl_last' = lastop.before.last
                 /\ InOrder' = lastop.before.inorder]_vars

\* avl_swap has exchanged two containers that both hold records.
C14_Witness ==
    /\ lastop.op = "avl_swap"
    /\ ~panicked
    /\ order # <<>>
    /\ tree2.order # <<>>
    /\ avl_first # tree2.first

\* C15: avl_destroy on a container whose element count is greater than 0
\* fails with an assertion-style abort instead of releasing the container.
C15_DestroyNonEmptyAborts ==
    lastop.op = "avl_destroy" /\ avl_numnodes(Tree) # 0 => panicked

\* C16: avl_remove of a record that is not a member fails with an
\* assertion-style abort and leaves the count and the cached endpoints
\* unchanged; the unsigned count never wraps below 0.
C16_RemoveNonMemberAborts ==
    /\ lastop.op = "avl_remove" /\ lastop.node \notin Range(lastop.before.order)
           => /\ panicked
              /\ avl_first = lastop.before.first
              /\ avl_last = lastop.before.last
    /\ avl_children >= 0

\* C18: the number of elements reachable from the tree root equals
\* avl_numnodes(): no insertion links the new node into an occupied child
\* slot, so no member becomes unreachable.
C18_NoLostElements ==
    ~panicked =>
        /\ Cardinality(Range(InOrder)) = avl_numnodes(Tree)
        /\ Members \subseteq Range(InOrder)

\* C17: each time the work function of a registered cyclic finishes
\* invoking the handler, the delayed work is scheduled again, one interval
\* ahead, as long as spl_cyclic_remove has not been called for it.
C17_PeriodicRearm ==
    [][\A c \in Slots :
           cyb[c].running /\ ~cyb'[c].running /\ rm.timer # c
               => /\ ~panicked'
                  /\ cyb'[c].pending
                  /\ cyb'[c].expires = lbolt + cyb[c].cyt_interval]_vars

\* C19: after spl_cyclic_remove(id) has returned no freed record remains in
\* cyb_timer_list; once every added cyclic is removed the list is empty and
\* the assertion of spl_cyclic_fini holds.
C19_RemoveUnregisters ==
    /\ \A i \in 1..Len(cyb_timer_list) : cyb[cyb_timer_list[i]].state # "freed"
    /\ rm.pc = "fini" => ~panicked /\ cyb_timer_list = <<>>

\* C20: spl_cyclic_remove(id) on a registered cyclic eventually returns in
\* every interleaving with the work function.
C20_RemoveTerminates == (rm.pc = "cancel") ~> (rm.pc = "idle")

====
